---- MODULE Spec2Model ----
(***************************************************************************)
(* Model of the CostInsight backend glue layer:                            *)
(*   - the POST /costs router (routes/costs, async Express handler),       *)
(*   - the prom-client metrics module (backend/metrics.js),                *)
(*   - the Lambda deployment shell script (bash, set -e).                  *)
(* Spec       : one Node process: metrics module loads + concurrent        *)
(*              POST /costs requests.                                      *)
(* SpecDeploy : runs of the deployment script against a cloud account.     *)
(***************************************************************************)
EXTENDS Integers, Sequences, FiniteSets, TLC

VARIABLES
    \* ---- POST /costs handler, per request ----
    framework,      \* Express major line the process runs on (fixed per process)
    pc,             \* position of each request's handler
    cloudProvider,  \* req.body.cloudProvider of each received request
    calls,          \* collaborator calls made while handling each request
    outcome,        \* how the awaited collaborator promise settled
    sent,           \* responses written for each request, in order
    unhandled,      \* the async handler's own promise rejected
    \* ---- metrics.js ----
    moduleCache,    \* require.cache holds metrics.js
    registry,       \* names registered in prom-client's global registry
    histogram,      \* module.exports.httpRequestDurationMicroseconds
    requires,       \* number of require('./metrics') evaluated so far
    raised,         \* a require of metrics.js threw
    \* ---- deployment script ----
    dpc,            \* next command of the script
    cloud,          \* resources existing in the AWS account
    run,            \* number of the current run of the script
    issued,         \* mutating aws calls issued during the current run
    envFault,       \* some command failed for a reason other than resource state
    probeFailed,    \* current run: a command failed as if-condition / left of a pipe
    stmtFailed,     \* current run: a command failed in statement position
    printed         \* current run: "Deployment Successful" was echoed

routerVars  == <<framework, pc, cloudProvider, calls, outcome, sent, unhandled>>
metricsVars == <<moduleCache, registry, histogram, requires, raised>>
deployVars  == <<dpc, cloud, run, issued, envFault, probeFailed, stmtFailed, printed>>
vars        == <<routerVars, metricsVars, deployVars>>

(***************************************************************************)
(* Bounds                                                                  *)
(***************************************************************************)
MaxRequests == 2
MaxRequires == 2
MaxRuns     == 2

Requests == 1..MaxRequests

(***************************************************************************)
(* JavaScript values, as far as the handler distinguishes them.            *)
(***************************************************************************)
Str(s)     == [type |-> "string",    val |-> s]
Bool(b)    == [type |-> "boolean",   val |-> IF b THEN "true" ELSE "false"]
Undefined  == [type |-> "undefined", val |-> ""]
Null       == [type |-> "null",      val |-> ""]
NaN        == [type |-> "number",    val |-> "NaN"]
Obj(o)     == [type |-> "object",    val |-> o]
Circular   == [type |-> "object",    val |-> "<circular>"]
Err(m)     == [type |-> "Error",     val |-> m]

\* req.body.cloudProvider: the two providers, near misses, and the absent key.
Providers == {Str("aws"), Str("azure"), Str("AWS"), Str("gcp"), Undefined}

\* what fetchCosts may resolve with (the collaborators are opaque)
Values == {Obj("{total:123.45}"), Null, Undefined, NaN, Circular}

\* what fetchCosts may throw or reject with
Thrown == {Err("Access denied"), Err("timeout"), Str("boom"), Null}

NoOutcome   == [kind |-> "none", v |-> Undefined]
Resolved(v) == [kind |-> "resolve", v |-> v]
Rejected(e) == [kind |-> "reject", v |-> e]
ThrewSync(e) == [kind |-> "throw", v |-> e]
Outcomes == {Resolved(v) : v \in Values} \cup {Rejected(e) : e \in Thrown}

(***************************************************************************)
(* Express response plumbing used by the handler.                          *)
(***************************************************************************)
OK                  == 200
BadRequest          == 400
InternalServerError == 500

Response(status, body) == [status |-> status, body |-> body]

\* JSON.stringify refuses cyclic structures (and BigInt) with a TypeError.
Serializable(v) == v # Circular

\* JSON.stringify of one property value, read back by the client:
\* NaN is written as null, everything else serializable is kept.
JsonValue(v) == IF v = NaN THEN Null ELSE v

\* JSON.stringify of an object literal, read back by the client:
\* properties whose value is undefined are left out.
JsonBody(obj) ==
    LET kept == {k \in DOMAIN obj : obj[k] # Undefined}
    IN  [k \in kept |-> JsonValue(obj[k])]

\* The body Express's own final error handler writes (an HTML page, not the
\* handler's JSON envelope).
DefaultErrorPage == ("html" :> Str("<pre>TypeError</pre>"))

\* error.message: the property of an Error object; undefined on a thrown
\* string. (Reading it on null/undefined throws, see CatchBlock.)
MessageOf(error) == IF error.type = "Error" THEN Str(error.val) ELSE Undefined

Nullish(v) == v \in {Null, Undefined}

(***************************************************************************)
(* router.post('/costs', async (req, res) => { ... })                      *)
(* Each block returns what it adds to the request: the responses sent so   *)
(* far and whether the handler's promise ends rejected.                    *)
(***************************************************************************)

\* Mutant of CatchBlock: a fixed text instead of error.message.
CatchBlockGenericMessage(error, sentSoFar) ==
    [sent |-> Append(sentSoFar,
                Response(InternalServerError,
                         JsonBody(("success" :> Bool(FALSE)) @@
                                  ("message" :> Str("Internal Server Error"))))),
     unhandled |-> FALSE]

\* lines 19-21: catch (error) { res.status(500).json({success:false, message:error.message}) }
\* With error null/undefined the read of error.message throws a TypeError out
\* of the catch block: the async handler rejects.  Express 4 ignores the
\* returned promise (no response is ever written); Express 5 forwards the
\* rejection to its final error handler, which writes its own 500 page.
CatchBlock(error, sentSoFar) ==
    IF Nullish(error)
    THEN [sent |-> IF framework = "express5"
                   THEN Append(sentSoFar, Response(InternalServerError, DefaultErrorPage))
                   ELSE sentSoFar,
          unhandled |-> TRUE]
    ELSE [sent |-> Append(sentSoFar,
                     Response(InternalServerError,
                              JsonBody(("success" :> Bool(FALSE)) @@
                                       ("message" :> MessageOf(error))))),
          unhandled |-> FALSE]

\* Mutant of SuccessBlock: the costs property left out of the envelope.
SuccessBlockNoCosts(costs, sentSoFar) ==
    [sent |-> Append(sentSoFar, Response(OK, JsonBody(("success" :> Bool(TRUE))))),
     unhandled |-> FALSE]

\* line 18: res.json({ success: true, costs })  (inside the try block:
\* a TypeError from JSON.stringify lands in the catch block, nothing has been
\* written yet at that point)
SuccessBlock(costs, sentSoFar) ==
    IF Serializable(costs)
    THEN [sent |-> Append(sentSoFar,
                     Response(OK, JsonBody(("success" :> Bool(TRUE)) @@
                                           ("costs" :> costs)))),
          unhandled |-> FALSE]
    ELSE CatchBlock(Err("Converting circular structure to JSON"), sentSoFar)

\* Mutant of InvalidBlock: the return is missing, line 18 runs as well.
InvalidBlockFallsThrough(sentSoFar) ==
    [sent |-> Append(Append(sentSoFar,
                Response(BadRequest,
                         JsonBody(("success" :> Bool(FALSE)) @@
                                  ("message" :> Str("Invalid cloud provider."))))),
                Response(OK, JsonBody(("success" :> Bool(TRUE))))),
     unhandled |-> FALSE]

\* lines 15-17: return res.status(400).json({...})
InvalidBlock(sentSoFar) ==
    [sent |-> Append(sentSoFar,
                Response(BadRequest,
                         JsonBody(("success" :> Bool(FALSE)) @@
                                  ("message" :> Str("Invalid cloud provider."))))),
     unhandled |-> FALSE]

\* Mutant of Dispatch: the azure branch calls awsService (copied line).
DispatchAwsForBoth(cp) ==
    IF cp \in {Str("aws"), Str("azure")} THEN "awsService" ELSE "invalid"

\* Mutant of Dispatch: the discriminator compared ignoring case.
DispatchIgnoringCase(cp) ==
    IF cp \in {Str("aws"), Str("AWS")} THEN "awsService"
    ELSE IF cp = Str("azure") THEN "azureService"
    ELSE "invalid"

\* lines 11-15: the strict-equality dispatch on cloudProvider
Dispatch(cp) ==
    IF cp = Str("aws") THEN "awsService"
    ELSE IF cp = Str("azure") THEN "azureService"
    ELSE "invalid"

\* Mutant of Awaited: settled results kept in one slot shared by all requests.
AwaitedShared(r) == outcome[CHOOSE s \in Requests : pc[s] = "settled"]

\* the value the await expression of this request's handler yields
Awaited(r) == outcome[r]

Finish(r, result) ==
    /\ sent' = [sent EXCEPT ![r] = result.sent]
    /\ unhandled' = [unhandled EXCEPT ![r] = result.unhandled]
    /\ pc' = [pc EXCEPT ![r] = "done"]

\* lines 6-17: a request arrives; the handler runs up to its first await
\* (or to its end when no collaborator is awaited).
Handle(r) ==
    /\ pc[r] = "idle"
    /\ \E cp \in Providers :
        /\ cloudProvider' = [cloudProvider EXCEPT ![r] = cp]
        /\ IF Dispatch(cp) = "invalid"
           THEN /\ Finish(r, InvalidBlock(sent[r]))
                /\ UNCHANGED <<calls, outcome>>
           ELSE /\ calls' = [calls EXCEPT ![r] = Append(@, Dispatch(cp))]
                /\ \/ \* fetchCosts returned a promise: the handler suspends
                      /\ pc' = [pc EXCEPT ![r] = "awaiting"]
                      /\ UNCHANGED <<sent, unhandled, outcome>>
                   \/ \* fetchCosts threw synchronously
                      \E e \in Thrown :
                        /\ outcome' = [outcome EXCEPT ![r] = ThrewSync(e)]
                        /\ Finish(r, CatchBlock(e, sent[r]))
    /\ UNCHANGED <<framework, metricsVars, deployVars>>

\* the collaborator's promise settles (cloud SDK call finished)
Settle(r) ==
    /\ pc[r] = "awaiting"
    /\ \E o \in Outcomes : outcome' = [outcome EXCEPT ![r] = o]
    /\ pc' = [pc EXCEPT ![r] = "settled"]
    /\ UNCHANGED <<framework, cloudProvider, calls, sent, unhandled,
                   metricsVars, deployVars>>

\* lines 12/14 (continuation of the await), 18, 19-21
Resume(r) ==
    /\ pc[r] = "settled"
    /\ Finish(r, IF Awaited(r).kind = "resolve"
                 THEN SuccessBlock(Awaited(r).v, sent[r])
                 ELSE CatchBlock(Awaited(r).v, sent[r]))
    /\ UNCHANGED <<framework, cloudProvider, calls, outcome,
                   metricsVars, deployVars>>

InitRouter ==
    /\ framework \in {"express4", "express5"}
    /\ pc = [r \in Requests |-> "idle"]
    /\ cloudProvider = [r \in Requests |-> Undefined]
    /\ calls = [r \in Requests |-> <<>>]
    /\ outcome = [r \in Requests |-> NoOutcome]
    /\ sent = [r \in Requests |-> <<>>]
    /\ unhandled = [r \in Requests |-> FALSE]

(***************************************************************************)
(* backend/metrics.js on prom-client's process-wide default registry.      *)
(***************************************************************************)

\* metrics.js:5  collectDefaultMetrics registers the process metrics
DefaultMetricNames == {"process_cpu_seconds_total", "nodejs_eventloop_lag_seconds"}

\* metrics.js:7-12  the configuration object given to new client.Histogram
HistogramConfig ==
    [name       |-> "http_request_duration_ms",
     help       |-> "Duration of HTTP requests in ms",
     labelNames |-> <<"method", "route", "code">>,
     buckets    |-> <<50, 100, 200, 300, 400, 500, 750, 1000, 2500, 5000, 10000>>]

NoHistogram == [name |-> "", help |-> "", labelNames |-> <<>>, buckets |-> <<>>]

\* Registry.registerMetric throws when the name is already registered.
CanRegister(names) == names \cap registry = {}

\* metrics.js:1-17 evaluated top to bottom (the module body).
ModuleBody ==
    IF CanRegister(DefaultMetricNames) /\ CanRegister({HistogramConfig.name})
    THEN /\ registry' = registry \cup DefaultMetricNames \cup {HistogramConfig.name}
         /\ histogram' = HistogramConfig
         /\ moduleCache' = TRUE
         /\ UNCHANGED raised
    ELSE \* the throw leaves the module out of require.cache; what was
         \* registered before the throw stays registered
         /\ registry' = registry \cup DefaultMetricNames
         /\ raised' = TRUE
         /\ UNCHANGED <<histogram, moduleCache>>

\* Mutant of RequireMetrics: the module body evaluated on every require.
RequireMetricsUncached ==
    /\ requires < MaxRequires
    /\ requires' = requires + 1
    /\ ModuleBody
    /\ UNCHANGED <<routerVars, deployVars>>

\* require('./metrics') from any module of the process: Node evaluates the
\* module body on the first require and serves module.exports from
\* require.cache afterwards.
RequireMetrics ==
    /\ requires < MaxRequires
    /\ requires' = requires + 1
    /\ IF moduleCache
       THEN UNCHANGED <<registry, histogram, moduleCache, raised>>
       ELSE ModuleBody
    /\ UNCHANGED <<routerVars, deployVars>>

InitMetrics ==
    /\ moduleCache = FALSE
    /\ registry = {}
    /\ histogram = NoHistogram
    /\ requires = 0
    /\ raised = FALSE

(***************************************************************************)
(* Deployment script (placeholder state while the server process runs).    *)
(***************************************************************************)
InitDeployIdle ==
    /\ dpc = [step |-> "not_started", fn |-> "-"]
    /\ cloud = {}
    /\ run = 0
    /\ issued = {}
    /\ envFault = FALSE
    /\ probeFailed = FALSE
    /\ stmtFailed = FALSE
    /\ printed = FALSE

(***************************************************************************)
(* The server process                                                      *)
(***************************************************************************)
Init == InitRouter /\ InitMetrics /\ InitDeployIdle

Next ==
    \/ \E r \in Requests : Handle(r)
    \/ \E r \in Requests : Settle(r)
    \/ \E r \in Requests : Resume(r)
    \/ RequireMetrics

Spec == Init /\ [][Next]_vars

(***************************************************************************)
(* The deployment script: bash, set -e, aws CLI against one account.       *)
(***************************************************************************)
S3_BUCKET_NAME         == "costinsight-lambda-code-bucket-unique-name"
IAM_ROLE_NAME          == "CostInsightLambdaRole"
FETCHER_FUNCTION_NAME  == "CostInsight-CloudWatchFetcher"
SHUTDOWN_FUNCTION_NAME == "CostInsight-AutoShutdown"
MANAGED_POLICY_ARN     == "arn:aws:iam::aws:policy/service-role/AWSLambdaBasicExecutionRole"
POLICY_NAME            == "CostInsightLambdaRolePolicy"

Functions == {FETCHER_FUNCTION_NAME, SHUTDOWN_FUNCTION_NAME}

\* resources of the account the script reads or writes
Attached(policy) == <<"attached", policy>>
Package(fn)      == <<"s3-object", fn>>
Res(name)        == <<"resource", name>>

AllResources ==
    {Res(S3_BUCKET_NAME), Res(IAM_ROLE_NAME), Res(POLICY_NAME),
     Attached(MANAGED_POLICY_ARN), Attached(POLICY_NAME)}
    \cup {Res(fn) : fn \in Functions} \cup {Package(fn) : fn \in Functions}

\* an attachment needs its role (and the customer policy), an object its bucket
Consistent(c) ==
    /\ Attached(MANAGED_POLICY_ARN) \in c => Res(IAM_ROLE_NAME) \in c
    /\ Attached(POLICY_NAME) \in c => {Res(IAM_ROLE_NAME), Res(POLICY_NAME)} \subseteq c
    /\ \A fn \in Functions : Package(fn) \in c => Res(S3_BUCKET_NAME) \in c

\* aws calls that change the account
Call(verb, target) == <<verb, target>>
CreateCalls ==
    {Call("s3 mb", S3_BUCKET_NAME), Call("create-role", IAM_ROLE_NAME),
     Call("create-policy", POLICY_NAME),
     Call("attach-role-policy", MANAGED_POLICY_ARN),
     Call("attach-role-policy", POLICY_NAME)}
    \cup {Call("create-function", fn) : fn \in Functions}
UpdateCalls == {Call("update-function-code", fn) : fn \in Functions}

At(step)       == [step |-> step, fn |-> "-"]
AtFn(step, fn) == [step |-> step, fn |-> fn]
Aborted        == At("aborted")

\* Mutant of Statement: no errexit, the script goes on after a failure.
StatementWithoutErrexit(ok, next) ==
    /\ dpc' = next
    /\ stmtFailed' = (stmtFailed \/ ~ok)
    /\ UNCHANGED probeFailed

\* line 30, set -e: a command in statement position (a plain command, also
\* inside a then/else branch, or an assignment from a command substitution)
\* that exits non-zero ends the script there.
Statement(ok, next) ==
    /\ dpc' = IF ok THEN next ELSE Aborted
    /\ stmtFailed' = (stmtFailed \/ ~ok)
    /\ UNCHANGED probeFailed

\* A command tested by `if` (with or without `!`), or on the left of a pipe
\* whose last command is grep: errexit does not apply; the script branches
\* on the status of the condition.
Condition(failed, next) ==
    /\ dpc' = next
    /\ probeFailed' = (probeFailed \/ failed)
    /\ UNCHANGED stmtFailed

Issue(call) == issued' = issued \cup {call}

Fault(f) == envFault' = (envFault \/ f)

ServerIdle == UNCHANGED <<routerVars, metricsVars>>

\* the operator starts the script (again): lines 27-70
\* (SCRIPT_DIR=$(...), PROJECT_ROOT=$(...), cd "$PROJECT_ROOT")
StartRun ==
    /\ dpc \in {At("not_started"), At("done"), Aborted}
    /\ run < MaxRuns
    /\ run' = run + 1
    /\ issued' = {}
    /\ probeFailed' = FALSE
    /\ printed' = FALSE
    /\ \E fault \in BOOLEAN :
        /\ dpc' = IF fault THEN Aborted ELSE At("s3 ls")
        /\ stmtFailed' = fault
        /\ Fault(fault)
    /\ UNCHANGED cloud
    /\ ServerIdle

\* line 74: if aws s3 ls "s3://$S3_BUCKET_NAME" 2>&1 | grep -q 'NoSuchBucket'
S3Ls ==
    /\ dpc = At("s3 ls")
    /\ \E fault \in BOOLEAN :
        LET output == IF fault THEN "AccessDenied"
                      ELSE IF Res(S3_BUCKET_NAME) \in cloud THEN "listing"
                      ELSE "NoSuchBucket"
        IN  /\ Condition(output # "listing",
                         IF output = "NoSuchBucket" THEN At("s3 mb")
                         ELSE At("get-role"))
            /\ Fault(fault)
    /\ UNCHANGED <<cloud, run, issued, printed>>
    /\ ServerIdle

\* line 75: aws s3 mb
S3Mb ==
    /\ dpc = At("s3 mb")
    /\ \E fault \in BOOLEAN :
        /\ Statement(~fault, At("get-role"))
        /\ cloud' = IF fault THEN cloud ELSE cloud \cup {Res(S3_BUCKET_NAME)}
        /\ Fault(fault)
    /\ Issue(Call("s3 mb", S3_BUCKET_NAME))
    /\ UNCHANGED <<run, printed>>
    /\ ServerIdle

\* Mutant of GetRole: the `!` is missing, the role is created when it exists.
GetRoleInverted ==
    /\ dpc = At("get-role")
    /\ \E fault \in BOOLEAN :
        LET ok == ~fault /\ Res(IAM_ROLE_NAME) \in cloud
        IN  /\ Condition(~ok, IF ok THEN At("create-role") ELSE At("list-managed"))
            /\ Fault(fault)
    /\ UNCHANGED <<cloud, run, issued, printed>>
    /\ ServerIdle

\* line 127: if ! aws iam get-role ... >/dev/null 2>&1
GetRole ==
    /\ dpc = At("get-role")
    /\ \E fault \in BOOLEAN :
        LET ok == ~fault /\ Res(IAM_ROLE_NAME) \in cloud
        IN  /\ Condition(~ok, IF ok THEN At("list-managed") ELSE At("create-role"))
            /\ Fault(fault)
    /\ UNCHANGED <<cloud, run, issued, printed>>
    /\ ServerIdle

\* line 128: aws iam create-role (EntityAlreadyExists when the role is there)
CreateRole ==
    /\ dpc = At("create-role")
    /\ \E fault \in BOOLEAN :
        LET ok == ~fault /\ Res(IAM_ROLE_NAME) \notin cloud
        IN  /\ Statement(ok, At("list-managed"))
            /\ cloud' = IF ok THEN cloud \cup {Res(IAM_ROLE_NAME)} ELSE cloud
            /\ Fault(fault)
    /\ Issue(Call("create-role", IAM_ROLE_NAME))
    /\ UNCHANGED <<run, printed>>
    /\ ServerIdle

\* lines 136 and 155: if ! aws iam list-attached-role-policies ... | grep -q "."
\* (a failed aws call prints nothing on stdout, like an unattached policy)
ListAttached(step, policy, next) ==
    /\ dpc = At(step)
    /\ \E fault \in BOOLEAN :
        LET listed == ~fault /\ Attached(policy) \in cloud
        IN  /\ Condition(fault,
                         IF listed THEN next ELSE AtFn("attach-role-policy", policy))
            /\ Fault(fault)
    /\ UNCHANGED <<cloud, run, issued, printed>>
    /\ ServerIdle

ListManaged == ListAttached("list-managed", MANAGED_POLICY_ARN, At("get-caller-identity"))
ListCustom  == ListAttached("list-custom", POLICY_NAME, At("get-role-arn"))

\* lines 138 and 157: aws iam attach-role-policy (NoSuchEntity when the role
\* or the policy is missing; attaching an attached policy succeeds)
AttachRolePolicy(policy, needs, next) ==
    /\ dpc = AtFn("attach-role-policy", policy)
    /\ \E fault \in BOOLEAN :
        LET ok == ~fault /\ needs \subseteq cloud
        IN  /\ Statement(ok, next)
            /\ cloud' = IF ok THEN cloud \cup {Attached(policy)} ELSE cloud
            /\ Fault(fault)
    /\ Issue(Call("attach-role-policy", policy))
    /\ UNCHANGED <<run, printed>>
    /\ ServerIdle

AttachManaged ==
    AttachRolePolicy(MANAGED_POLICY_ARN, {Res(IAM_ROLE_NAME)}, At("get-caller-identity"))
AttachCustom ==
    AttachRolePolicy(POLICY_NAME, {Res(IAM_ROLE_NAME), Res(POLICY_NAME)}, At("get-role-arn"))

\* a read-only aws call whose output is assigned: ACCOUNT_ID=$(...), ROLE_ARN=$(...)
Assignment(step, needs, next) ==
    /\ dpc = At(step)
    /\ \E fault \in BOOLEAN :
        /\ Statement(~fault /\ needs \subseteq cloud, next)
        /\ Fault(fault)
    /\ UNCHANGED <<cloud, run, issued, printed>>
    /\ ServerIdle

\* line 145: ACCOUNT_ID=$(aws sts get-caller-identity ...)
GetCallerIdentity == Assignment("get-caller-identity", {}, At("get-policy"))

\* line 148: if ! aws iam get-policy ... >/dev/null 2>&1
GetPolicy ==
    /\ dpc = At("get-policy")
    /\ \E fault \in BOOLEAN :
        LET ok == ~fault /\ Res(POLICY_NAME) \in cloud
        IN  /\ Condition(~ok, IF ok THEN At("list-custom") ELSE At("create-policy"))
            /\ Fault(fault)
    /\ UNCHANGED <<cloud, run, issued, printed>>
    /\ ServerIdle

\* line 150: aws iam create-policy (EntityAlreadyExists when the policy is there)
CreatePolicy ==
    /\ dpc = At("create-policy")
    /\ \E fault \in BOOLEAN :
        LET ok == ~fault /\ Res(POLICY_NAME) \notin cloud
        IN  /\ Statement(ok, At("list-custom"))
            /\ cloud' = IF ok THEN cloud \cup {Res(POLICY_NAME)} ELSE cloud
            /\ Fault(fault)
    /\ Issue(Call("create-policy", POLICY_NAME))
    /\ UNCHANGED <<run, printed>>
    /\ ServerIdle

\* lines 165-170: ROLE_ARN=$(aws iam get-role ...); sleep 10
GetRoleArn ==
    Assignment("get-role-arn", {Res(IAM_ROLE_NAME)}, AtFn("package", FETCHER_FUNCTION_NAME))

\* lines 174-176 and 200-202: zip -j; aws s3 cp; rm
\* (NoSuchBucket when the bucket is missing; an existing object is replaced)
PackageAndUpload(fn) ==
    /\ dpc = AtFn("package", fn)
    /\ \E fault \in BOOLEAN :
        LET ok == ~fault /\ Res(S3_BUCKET_NAME) \in cloud
        IN  /\ Statement(ok, AtFn("get-function", fn))
            /\ cloud' = IF ok THEN cloud \cup {Package(fn)} ELSE cloud
            /\ Fault(fault)
    /\ Issue(Call("s3 cp", fn))
    /\ UNCHANGED <<run, printed>>
    /\ ServerIdle

\* lines 181 and 207: if aws lambda get-function ... >/dev/null 2>&1
GetFunction(fn) ==
    /\ dpc = AtFn("get-function", fn)
    /\ \E fault \in BOOLEAN :
        LET ok == ~fault /\ Res(fn) \in cloud
        IN  /\ Condition(~ok,
                         IF ok THEN AtFn("update-function-code", fn)
                         ELSE AtFn("create-function", fn))
            /\ Fault(fault)
    /\ UNCHANGED <<cloud, run, issued, printed>>
    /\ ServerIdle

\* after step 4 comes step 5, after step 6 the summary
AfterFunction(fn) ==
    IF fn = FETCHER_FUNCTION_NAME THEN AtFn("package", SHUTDOWN_FUNCTION_NAME)
    ELSE At("summary")

\* lines 183 and 209: aws lambda update-function-code
UpdateFunctionCode(fn) ==
    /\ dpc = AtFn("update-function-code", fn)
    /\ \E fault \in BOOLEAN :
        /\ Statement(~fault /\ {Res(fn), Package(fn)} \subseteq cloud, AfterFunction(fn))
        /\ Fault(fault)
    /\ Issue(Call("update-function-code", fn))
    /\ UNCHANGED <<cloud, run, printed>>
    /\ ServerIdle

\* lines 186-195 and 212-221: aws lambda create-function
\* (ResourceConflict when the function is there)
CreateFunction(fn) ==
    /\ dpc = AtFn("create-function", fn)
    /\ \E fault \in BOOLEAN :
        LET ok == ~fault /\ Res(fn) \notin cloud
                         /\ {Res(IAM_ROLE_NAME), Package(fn)} \subseteq cloud
        IN  /\ Statement(ok, AfterFunction(fn))
            /\ cloud' = IF ok THEN cloud \cup {Res(fn)} ELSE cloud
            /\ Fault(fault)
    /\ Issue(Call("create-function", fn))
    /\ UNCHANGED <<run, printed>>
    /\ ServerIdle

\* lines 224-233: the summary
Summary ==
    /\ dpc = At("summary")
    /\ dpc' = At("done")
    /\ printed' = TRUE
    /\ UNCHANGED <<cloud, run, issued, envFault, probeFailed, stmtFailed>>
    /\ ServerIdle

InitScript ==
    /\ dpc = At("not_started")
    /\ cloud \in {c \in SUBSET (AllResources \ {Package(fn) : fn \in Functions}) :
                    Consistent(c)}
    /\ run = 0
    /\ issued = {}
    /\ envFault = FALSE
    /\ probeFailed = FALSE
    /\ stmtFailed = FALSE
    /\ printed = FALSE

\* the script runs on the operator's machine; no server process is involved
InitDeploy ==
    /\ InitScript
    /\ InitRouter
    /\ framework = "express4"
    /\ InitMetrics

NextDeploy ==
    \/ StartRun
    \/ S3Ls
    \/ S3Mb
    \/ GetRole
    \/ CreateRole
    \/ ListManaged
    \/ AttachManaged
    \/ GetCallerIdentity
    \/ GetPolicy
    \/ CreatePolicy
    \/ ListCustom
    \/ AttachCustom
    \/ GetRoleArn
    \/ \E fn \in Functions : PackageAndUpload(fn)
    \/ \E fn \in Functions : GetFunction(fn)
    \/ \E fn \in Functions : UpdateFunctionCode(fn)
    \/ \E fn \in Functions : CreateFunction(fn)
    \/ Summary

SpecDeploy == InitDeploy /\ [][NextDeploy]_vars

(***************************************************************************)
(* Claims about the POST /costs handler and the metrics module (Spec)      *)
(***************************************************************************)
Received(r) == pc[r] # "idle"
Done(r)     == pc[r] = "done"

InvalidEnvelope ==
    ("success" :> Bool(FALSE)) @@ ("message" :> Str("Invalid cloud provider."))
SuccessEnvelope(v) == ("success" :> Bool(TRUE)) @@ ("costs" :> v)
FailureEnvelope(m) == ("success" :> Bool(FALSE)) @@ ("message" :> Str(m))

\* C1: a request whose cloudProvider is "aws" calls the AWS collaborator and
\* never the Azure one; a request whose cloudProvider is "azure" calls the
\* Azure collaborator and never the AWS one.
C1_DispatchExclusive ==
    \A r \in Requests :
        Received(r) =>
          /\ cloudProvider[r] = Str("aws") =>
                /\ calls[r] # <<>>
                /\ \A i \in 1..Len(calls[r]) : calls[r][i] = "awsService"
          /\ cloudProvider[r] = Str("azure") =>
                /\ calls[r] # <<>>
                /\ \A i \in 1..Len(calls[r]) : calls[r][i] = "azureService"

C1_Witness ==
    \E r, s \in Requests :
        /\ Done(r) /\ cloudProvider[r] = Str("aws") /\ calls[r] = <<"awsService">>
        /\ Done(s) /\ cloudProvider[s] = Str("azure") /\ calls[s] = <<"azureService">>

\* C2: a request whose cloudProvider is absent or anything but "aws"/"azure"
\* is answered with exactly 400 {success:false, message:"Invalid cloud
\* provider."} and no collaborator is called.
C2_InvalidProvider400 ==
    \A r \in Requests :
        (Received(r) /\ cloudProvider[r] \notin {Str("aws"), Str("azure")}) =>
          /\ sent[r] = <<Response(BadRequest, InvalidEnvelope)>>
          /\ calls[r] = <<>>

C2_Witness ==
    \E r, s \in Requests :
        /\ Done(r) /\ cloudProvider[r] = Undefined /\ Len(sent[r]) = 1
        /\ Done(s) /\ cloudProvider[s] = Str("AWS") /\ Len(sent[s]) = 1

\* C3 as stated: whenever the collaborator resolved with V, whatever V is,
\* the response is exactly 200 {success:true, costs:V}.
C3_AnyValue200 ==
    \A r \in Requests :
        (Done(r) /\ outcome[r].kind = "resolve") =>
            sent[r] = <<Response(OK, SuccessEnvelope(outcome[r].v))>>

\* values JSON carries unchanged: not undefined (key dropped), not NaN
\* (written as null), not a structure JSON.stringify rejects
JsonFaithful(v) == v \notin {Undefined, NaN, Circular}

\* C3 (amended): when the collaborator resolved with a value V that JSON
\* represents faithfully, the response is exactly 200 {success:true, costs:V}.
C3_FaithfulValue200 ==
    \A r \in Requests :
        (Done(r) /\ outcome[r].kind = "resolve" /\ JsonFaithful(outcome[r].v)) =>
            sent[r] = <<Response(OK, SuccessEnvelope(outcome[r].v))>>

C3_Witness ==
    \E r \in Requests :
        /\ Done(r)
        /\ outcome[r] = Resolved(Obj("{total:123.45}"))
        /\ Len(sent[r]) = 1 /\ sent[r][1].status = OK

\* C4: when the collaborator rejected with an error whose message is M, the
\* response is exactly 500 {success:false, message:M}.
C4_RejectMessage500 ==
    \A r \in Requests :
        (Done(r) /\ outcome[r].kind = "reject" /\ outcome[r].v.type = "Error") =>
            sent[r] = <<Response(InternalServerError, FailureEnvelope(outcome[r].v.val))>>

C4_Witness ==
    \E r, s \in Requests :
        /\ Done(r) /\ outcome[r] = Rejected(Err("timeout")) /\ Len(sent[r]) = 1
        /\ Done(s) /\ outcome[s] = Rejected(Err("Access denied")) /\ Len(sent[s]) = 1

\* C5 as stated: whatever the collaborator throws or rejects with (Error or
\* not, null/undefined included), the request ends with a 500 response in
\* the handler's {success:false, message} envelope; no thrown value leaves
\* the request without it.
C5_AnyThrown500 ==
    \A r \in Requests :
        (Done(r) /\ outcome[r].kind \in {"reject", "throw"}) =>
          /\ Len(sent[r]) = 1
          /\ sent[r][1].status = InternalServerError
          /\ "success" \in DOMAIN sent[r][1].body
          /\ DOMAIN sent[r][1].body \subseteq {"success", "message"}
          /\ sent[r][1].body["success"] = Bool(FALSE)

\* the response a finished handler owes to its own request alone
ResponseFor(cp, o) ==
    IF Dispatch(cp) = "invalid" THEN InvalidBlock(<<>>)
    ELSE IF o.kind = "resolve" THEN SuccessBlock(o.v, <<>>)
    ELSE CatchBlock(o.v, <<>>)

\* C6: requests are independent: while a request is suspended on its
\* collaborator, every other request can take its next step (be received,
\* have its collaborator settle, be answered); and what a finished request
\* was sent depends on its own body and its own collaborator outcome only
\* (equal inputs give equal responses, whatever the other requests did).
C6_Independent ==
    /\ \A r, s \in Requests :
        (r # s /\ pc[r] = "awaiting") =>
          /\ pc[s] = "idle"     => ENABLED Handle(s)
          /\ pc[s] = "awaiting" => ENABLED Settle(s)
          /\ pc[s] = "settled"  => ENABLED Resume(s)
    /\ \A r \in Requests :
        Done(r) =>
          /\ sent[r] = ResponseFor(cloudProvider[r], outcome[r]).sent
          /\ unhandled[r] = ResponseFor(cloudProvider[r], outcome[r]).unhandled
    /\ \A r, s \in Requests :
        (Done(r) /\ Done(s) /\ cloudProvider[r] = cloudProvider[s]
                 /\ outcome[r] = outcome[s]) =>
            (sent[r] = sent[s] /\ unhandled[r] = unhandled[s])

\* one request answered while another one is still suspended, with a
\* different outcome than the suspended one later gets
C6_Witness ==
    \E r, s \in Requests :
        /\ r # s
        /\ pc[r] = "settled" /\ outcome[r] = Rejected(Err("timeout"))
        /\ Done(s) /\ outcome[s] = Resolved(Null)
        /\ sent[s] = <<Response(OK, SuccessEnvelope(Null))>>

C10_AtMostOnce ==
    \A r \in Requests : Len(sent[r]) <= 1 /\ Len(calls[r]) <= 1

C10_Witness ==
    \E r, s \in Requests :
        /\ Done(r) /\ outcome[r].kind = "reject" /\ Len(sent[r]) = 1 /\ Len(calls[r]) = 1
        /\ Done(s) /\ Dispatch(cloudProvider[s]) = "invalid" /\ Len(sent[s]) = 1

(***************************************************************************)
(* Claims about the deployment script (SpecDeploy)                         *)
(***************************************************************************)

C8_Idempotent ==
    ~envFault =>
      /\ dpc # Aborted
      /\ dpc = At("done") => cloud = AllResources
      /\ run >= 2 =>
          /\ cloud = AllResources
          /\ issued \cap CreateCalls = {}
          /\ dpc = At("done") => UpdateCalls \subseteq issued

\* a second run finished after a first run that had to create something
C8_Witness ==
    /\ ~envFault /\ run = 2 /\ dpc = At("done") /\ printed
    /\ issued = UpdateCalls \cup {Call("s3 cp", fn) : fn \in Functions}
    /\ cloud = AllResources

\* a first run that started from an empty account and created everything
C8_FirstRunCreates ==
    /\ ~envFault /\ run = 1 /\ dpc = At("done")
    /\ Call("s3 mb", S3_BUCKET_NAME) \in issued
    /\ Call("create-role", IAM_ROLE_NAME) \in issued
    /\ \A fn \in Functions : Call("create-function", fn) \in issued

====
